---- MODULE Spec2Model ----
(***************************************************************************)
(* Model of DuckDocs/Resources/deepseek_ocr.py: the command-line driver    *)
(* main(), the dependency gate check_dependencies() and the three stages   *)
(* of analyze_image().  Python strings are sequences of one-character      *)
(* strings, so that json.dumps (escaping) and print (newline) are modelled *)
(* by what they do to the text.                                            *)
(***************************************************************************)
EXTENDS Integers, Sequences, FiniteSets, TLC

VARIABLES argv, env, pc, args, frame, image, calls, result, stdout, exit_code

vars == <<argv, env, pc, args, frame, image, calls, result, stdout, exit_code>>

\* ---------------------------------------------------------------- bounds
MaxPathLen == 1
MaxPromptLen == 1
MaxTokenArg == 1
MaxMsgLen == 1
MaxTextLen == 2

\* ------------------------------------------------------------ characters
QUOTE == "\""
BSLASH == "\\"
LF == "\n"

\* Python's None (no one-character string equals it)
None == <<"None">>

\* ------------------------------------------------- literals of the script
MlxLmPackage ==
    <<"m", "l", "x", "-", "l", "m">>

PillowPackage ==
    <<"p", "i", "l", "l", "o", "w">>

KeyError ==
    <<"e", "r", "r", "o", "r">>

KeyPackages ==
    <<"p", "a", "c", "k", "a", "g", "e", "s">>

KeyInstallCommand ==
    <<"i", "n", "s", "t", "a", "l", "l", "_", "c", "o", "m", "m", "a", "n", "d">>

KeyMessage ==
    <<"m", "e", "s", "s", "a", "g", "e">>

KeyModel ==
    <<"m", "o", "d", "e", "l">>

KeyPath ==
    <<"p", "a", "t", "h">>

KeyStatus ==
    <<"s", "t", "a", "t", "u", "s">>

KeyResult ==
    <<"r", "e", "s", "u", "l", "t">>

MissingDependencies ==
    <<"m", "i", "s", "s", "i", "n", "g", "_", "d", "e", "p", "e", "n", "d", "e", "n", "c", "i",
      "e", "s">>

FileNotFound ==
    <<"f", "i", "l", "e", "_", "n", "o", "t", "_", "f", "o", "u", "n", "d">>

ModelLoadFailed ==
    <<"m", "o", "d", "e", "l", "_", "l", "o", "a", "d", "_", "f", "a", "i", "l", "e", "d">>

ImageLoadFailed ==
    <<"i", "m", "a", "g", "e", "_", "l", "o", "a", "d", "_", "f", "a", "i", "l", "e", "d">>

GenerationFailed ==
    <<"g", "e", "n", "e", "r", "a", "t", "i", "o", "n", "_", "f", "a", "i", "l", "e", "d">>

StatusOk ==
    <<"o", "k">>

PipInstall ==
    <<"p", "i", "p", " ", "i", "n", "s", "t", "a", "l", "l", " ">>

model_id ==
    <<"m", "l", "x", "-", "c", "o", "m", "m", "u", "n", "i", "t", "y", "/", "D", "e", "e", "p",
      "S", "e", "e", "k", "-", "O", "C", "R", "-", "2", "-", "4", "b", "i", "t">>

DefaultPrompt ==
    <<"A", "n", "a", "l", "y", "z", "e", " ", "t", "h", "i", "s", " ", "U", "I", " ", "s", "c",
      "r", "e", "e", "n", "s", "h", "o", "t", " ", "a", "n", "d", " ", "g", "e", "n", "e", "r",
      "a", "t", "e", " ", "m", "a", "r", "k", "d", "o", "w", "n", " ", "d", "o", "c", "u", "m",
      "e", "n", "t", "a", "t", "i", "o", "n", ".", LF, LF, "D", "e", "s", "c", "r", "i", "b",
      "e", ":", LF, "1", ".", " ", "W", "h", "a", "t", " ", "U", "I", " ", "e", "l", "e", "m",
      "e", "n", "t", "s", " ", "a", "r", "e", " ", "v", "i", "s", "i", "b", "l", "e", " ", "(",
      "b", "u", "t", "t", "o", "n", "s", ",", " ", "m", "e", "n", "u", "s", ",", " ", "t", "e",
      "x", "t", " ", "f", "i", "e", "l", "d", "s", ",", " ", "e", "t", "c", ".", ")", LF, "2",
      ".", " ", "T", "h", "e", " ", "c", "u", "r", "r", "e", "n", "t", " ", "s", "t", "a", "t",
      "e", " ", "o", "f", " ", "t", "h", "e", " ", "i", "n", "t", "e", "r", "f", "a", "c", "e",
      LF, "3", ".", " ", "A", "n", "y", " ", "t", "e", "x", "t", " ", "c", "o", "n", "t", "e",
      "n", "t", " ", "v", "i", "s", "i", "b", "l", "e", LF, "4", ".", " ", "T", "h", "e", " ",
      "l", "a", "y", "o", "u", "t", " ", "a", "n", "d", " ", "o", "r", "g", "a", "n", "i", "z",
      "a", "t", "i", "o", "n", LF, LF, "F", "o", "r", "m", "a", "t", " ", "y", "o", "u", "r",
      " ", "r", "e", "s", "p", "o", "n", "s", "e", " ", "a", "s", " ", "c", "l", "e", "a", "n",
      " ", "m", "a", "r", "k", "d", "o", "w", "n", " ", "s", "u", "i", "t", "a", "b", "l", "e",
      " ", "f", "o", "r", " ", "d", "o", "c", "u", "m", "e", "n", "t", "a", "t", "i", "o", "n",
      ".">>

\* argparse default of --max-tokens, and of analyze_image's max_tokens
DefaultMaxTokens == 2048

\* ------------------------------------------------------------ json.dumps
\* a slip: the backslash is written unescaped
EncodeChar_NoBackslash(c) ==
    CASE c = QUOTE -> <<BSLASH, QUOTE>>
      [] c = LF -> <<BSLASH, "n">>
      [] OTHER -> <<c>>

\* json.dumps of one character of a str (ensure_ascii, default separators)
EncodeChar(c) ==
    CASE c = QUOTE -> <<BSLASH, QUOTE>>
      [] c = BSLASH -> <<BSLASH, BSLASH>>
      [] c = LF -> <<BSLASH, "n">>
      [] OTHER -> <<c>>

RECURSIVE EscapeAll(_)
EscapeAll(s) ==
    IF Len(s) = 0 THEN <<>>
    ELSE IF Len(s) = 1 THEN EncodeChar(s[1])
    ELSE LET h == Len(s) \div 2 IN
         EscapeAll(SubSeq(s, 1, h)) \o EscapeAll(SubSeq(s, h + 1, Len(s)))

\* json.dumps(s) for a str s
EncodeStr(s) ==
    <<QUOTE>> \o EscapeAll(s) \o <<QUOTE>>

\* sep.join(parts)
RECURSIVE Join(_, _)
Join(parts, sep) ==
    IF parts = <<>> THEN <<>>
    ELSE IF Len(parts) = 1 THEN parts[1]
    ELSE parts[1] \o sep \o Join(Tail(parts), sep)

\* json.dumps(l) for a list l of str
EncodeList(l) ==
    <<"[">> \o Join([k \in 1..Len(l) |-> EncodeStr(l[k])], <<",", " ">>) \o <<"]">>

\* json.dumps(d) for a dict d given as its items <<key, encoded value>>, in order
JsonDumps(items) ==
    <<"{">>
    \o Join([k \in 1..Len(items) |-> EncodeStr(items[k][1]) \o <<":", " ">> \o items[k][2]],
            <<",", " ">>)
    \o <<"}">>

\* print(s): one write of s followed by a newline
Println(out, s) ==
    Append(out, s \o <<LF>>)

\* ------------------------------------------------------------ input sets
RECURSIVE StringsUpTo(_, _)
StringsUpTo(A, n) ==
    IF n = 0 THEN {<<>>}
    ELSE LET S == StringsUpTo(A, n - 1) IN S \cup {Append(s, c) : s \in S, c \in A}

Paths == StringsUpTo({"n", QUOTE, BSLASH}, MaxPathLen)
Prompts == StringsUpTo({"X"}, MaxPromptLen)
TokenArgs == (-1 .. MaxTokenArg) \cup {DefaultMaxTokens}
Messages == StringsUpTo({"n", QUOTE}, MaxMsgLen)
Texts == StringsUpTo({"n", BSLASH, LF}, MaxTextLen)
Modes == {"RGB", "RGBA"}

\* a command line: --image is required, the other options appear at most once
ArgvSet ==
    [image : Paths,
     prompt : {<<>>} \cup {<<p>> : p \in Prompts},
     max_tokens : {<<>>} \cup {<<n>> : n \in TokenArgs},
     check_deps : BOOLEAN,
     json : BOOLEAN]

\* what the process finds: whether Path(image) exists (Path("") is the current
\* directory, which does), and which imports resolve
EnvSet ==
    [exists : BOOLEAN, mlx_lm : BOOLEAN, PIL : BOOLEAN]

NoArgs ==
    [image |-> <<>>, prompt |-> None, max_tokens |-> DefaultMaxTokens,
     check_deps |-> FALSE, json |-> FALSE]

NoFrame ==
    [image_path |-> <<>>, prompt |-> None, max_tokens |-> DefaultMaxTokens]

NoImage ==
    [path |-> <<>>, mode |-> "none"]

Init ==
    /\ argv \in ArgvSet
    /\ env \in EnvSet
    /\ argv.image = <<>> => env.exists
    /\ pc = "parse_args"
    /\ args = NoArgs
    /\ frame = NoFrame
    /\ image = NoImage
    /\ calls = <<>>
    /\ result = <<>>
    /\ stdout = <<>>
    /\ exit_code = 0

\* -------------------------------------------------------------- main()
\* a slip: --max-tokens clamped to at least 1
ParseArgs_Clamp ==
    /\ pc = "parse_args"
    /\ args' = [image |-> argv.image,
                prompt |-> IF argv.prompt = <<>> THEN None ELSE argv.prompt[1],
                max_tokens |-> IF argv.max_tokens = <<>> THEN DefaultMaxTokens
                               ELSE IF argv.max_tokens[1] < 1 THEN 1
                               ELSE argv.max_tokens[1],
                check_deps |-> argv.check_deps,
                json |-> argv.json]
    /\ pc' = IF argv.check_deps THEN "check_deps_only" ELSE "verify_image"
    /\ UNCHANGED <<argv, env, frame, image, calls, result, stdout, exit_code>>

\* parser.parse_args() and the branch on args.check_deps
ParseArgs ==
    /\ pc = "parse_args"
    /\ args' = [image |-> argv.image,
                prompt |-> IF argv.prompt = <<>> THEN None ELSE argv.prompt[1],
                max_tokens |-> IF argv.max_tokens = <<>> THEN DefaultMaxTokens
                               ELSE argv.max_tokens[1],
                check_deps |-> argv.check_deps,
                json |-> argv.json]
    /\ pc' = IF argv.check_deps THEN "check_deps_only" ELSE "verify_image"
    /\ UNCHANGED <<argv, env, frame, image, calls, result, stdout, exit_code>>

\* a slip: the second import is tried only when the first resolves
Missing_FirstOnly(e) ==
    IF ~e.mlx_lm THEN <<MlxLmPackage>>
    ELSE IF ~e.PIL THEN <<PillowPackage>>
    ELSE <<>>

\* check_dependencies(): the list of missing packages
Missing(e) ==
    (IF e.mlx_lm THEN <<>> ELSE <<MlxLmPackage>>)
    \o (IF e.PIL THEN <<>> ELSE <<PillowPackage>>)

\* a slip: the error object is printed but sys.exit(1) is not called
CheckDependencies_NoExit(e, out) ==
    LET missing == Missing(e) IN
    IF missing # <<>>
    THEN [exits |-> FALSE,
          stdout |-> Println(out,
              JsonDumps(<< <<KeyError, EncodeStr(MissingDependencies)>>,
                           <<KeyPackages, EncodeList(missing)>>,
                           <<KeyInstallCommand,
                             EncodeStr(PipInstall \o Join(missing, <<" ">>))>> >>))]
    ELSE [exits |-> FALSE, stdout |-> out]

\* check_dependencies(): standard output after the call, and whether it called
\* sys.exit(1)
CheckDependencies(e, out) ==
    LET missing == Missing(e) IN
    IF missing # <<>>
    THEN [exits |-> TRUE,
          stdout |-> Println(out,
              JsonDumps(<< <<KeyError, EncodeStr(MissingDependencies)>>,
                           <<KeyPackages, EncodeList(missing)>>,
                           <<KeyInstallCommand,
                             EncodeStr(PipInstall \o Join(missing, <<" ">>))>> >>))]
    ELSE [exits |-> FALSE, stdout |-> out]

\* a slip: no sys.exit(0) after the status line, main goes on
CheckDepsOnly_NoExit ==
    /\ pc = "check_deps_only"
    /\ LET r == CheckDependencies(env, stdout) IN
       /\ calls' = Append(calls, [fn |-> "check_dependencies"])
       /\ IF r.exits
          THEN /\ stdout' = r.stdout
               /\ exit_code' = 1
               /\ pc' = "exited"
          ELSE /\ stdout' = Println(r.stdout, JsonDumps(<< <<KeyStatus, EncodeStr(StatusOk)>> >>))
               /\ exit_code' = 0
               /\ pc' = "verify_image"
    /\ UNCHANGED <<argv, env, args, frame, image, result>>

\* --check-deps: check_dependencies(), print the status, sys.exit(0)
CheckDepsOnly ==
    /\ pc = "check_deps_only"
    /\ LET r == CheckDependencies(env, stdout) IN
       /\ calls' = Append(calls, [fn |-> "check_dependencies"])
       /\ IF r.exits
          THEN /\ stdout' = r.stdout
               /\ exit_code' = 1
          ELSE /\ stdout' = Println(r.stdout, JsonDumps(<< <<KeyStatus, EncodeStr(StatusOk)>> >>))
               /\ exit_code' = 0
       /\ pc' = "exited"
    /\ UNCHANGED <<argv, env, args, frame, image, result>>

\* a slip: the error object is wrapped as {"result": ...} under --json
VerifyImage_JsonWrap ==
    /\ pc = "verify_image"
    /\ calls' = Append(calls, [fn |-> "exists", path |-> args.image])
    /\ IF ~env.exists
       THEN /\ LET error == JsonDumps(<< <<KeyError, EncodeStr(FileNotFound)>>,
                                         <<KeyPath, EncodeStr(args.image)>> >>) IN
               stdout' = IF args.json
                         THEN Println(stdout, JsonDumps(<< <<KeyResult, EncodeStr(error)>> >>))
                         ELSE Println(stdout, error)
            /\ exit_code' = 1
            /\ pc' = "exited"
       ELSE /\ pc' = "check_deps"
            /\ UNCHANGED <<stdout, exit_code>>
    /\ UNCHANGED <<argv, env, args, frame, image, result>>

\* if not Path(args.image).exists(): print the error object, sys.exit(1)
VerifyImage ==
    /\ pc = "verify_image"
    /\ calls' = Append(calls, [fn |-> "exists", path |-> args.image])
    /\ IF ~env.exists
       THEN /\ stdout' = Println(stdout, JsonDumps(<< <<KeyError, EncodeStr(FileNotFound)>>,
                                                    <<KeyPath, EncodeStr(args.image)>> >>))
            /\ exit_code' = 1
            /\ pc' = "exited"
       ELSE /\ pc' = "check_deps"
            /\ UNCHANGED <<stdout, exit_code>>
    /\ UNCHANGED <<argv, env, args, frame, image, result>>

\* a slip: the outcome of the check is ignored and the analysis runs
CheckDepsBeforeRun_Ignore ==
    /\ pc = "check_deps"
    /\ calls' = Append(calls, [fn |-> "check_dependencies"])
    /\ pc' = "analyze_image"
    /\ UNCHANGED <<argv, env, args, frame, image, result, stdout, exit_code>>

\* check_dependencies() before running: silent on success
CheckDepsBeforeRun ==
    /\ pc = "check_deps"
    /\ LET r == CheckDependencies(env, stdout) IN
       /\ calls' = Append(calls, [fn |-> "check_dependencies"])
       /\ stdout' = r.stdout
       /\ IF r.exits
          THEN /\ exit_code' = 1
               /\ pc' = "exited"
          ELSE /\ pc' = "analyze_image"
               /\ UNCHANGED exit_code
    /\ UNCHANGED <<argv, env, args, frame, image, result>>

\* ------------------------------------------------------- analyze_image()
\* a slip: "if not prompt", which also replaces the empty string
PromptOrDefault_Falsy(p) ==
    IF p = None \/ p = <<>> THEN DefaultPrompt ELSE p

\* if prompt is None: prompt = <the default documentation prompt>
PromptOrDefault(p) ==
    IF p = None THEN DefaultPrompt ELSE p

\* the error object a failed stage returns, as json.dumps writes it
ModelLoadError(msg) ==
    JsonDumps(<< <<KeyError, EncodeStr(ModelLoadFailed)>>,
                 <<KeyMessage, EncodeStr(msg)>>,
                 <<KeyModel, EncodeStr(model_id)>> >>)

ImageLoadError(msg, path) ==
    JsonDumps(<< <<KeyError, EncodeStr(ImageLoadFailed)>>,
                 <<KeyMessage, EncodeStr(msg)>>,
                 <<KeyPath, EncodeStr(path)>> >>)

GenerationError(msg) ==
    JsonDumps(<< <<KeyError, EncodeStr(GenerationFailed)>>,
                 <<KeyMessage, EncodeStr(msg)>> >>)

\* main's call of analyze_image: the arguments bound, the default prompt chosen
AnalyzeEnter ==
    /\ pc = "analyze_image"
    /\ frame' = [image_path |-> args.image,
                 prompt |-> PromptOrDefault(args.prompt),
                 max_tokens |-> args.max_tokens]
    /\ calls' = Append(calls, [fn |-> "analyze_image", image_path |-> args.image,
                               prompt |-> args.prompt, max_tokens |-> args.max_tokens])
    /\ pc' = "load"
    /\ UNCHANGED <<argv, env, args, image, result, stdout, exit_code>>

\* a slip: the error object is built but not returned, the next stage runs
LoadModel_FallThrough ==
    /\ pc = "load"
    /\ \/ /\ calls' = Append(calls, [fn |-> "load", model_id |-> model_id,
                                     raised |-> FALSE, msg |-> <<>>])
          /\ UNCHANGED result
       \/ \E msg \in Messages :
            /\ calls' = Append(calls, [fn |-> "load", model_id |-> model_id,
                                       raised |-> TRUE, msg |-> msg])
            /\ result' = ModelLoadError(msg)
    /\ pc' = "open"
    /\ UNCHANGED <<argv, env, args, frame, image, stdout, exit_code>>

\* model, tokenizer = load(model_id), or the model_load_failed object
LoadModel ==
    /\ pc = "load"
    /\ \/ /\ calls' = Append(calls, [fn |-> "load", model_id |-> model_id,
                                     raised |-> FALSE, msg |-> <<>>])
          /\ pc' = "open"
          /\ UNCHANGED result
       \/ \E msg \in Messages :
            /\ calls' = Append(calls, [fn |-> "load", model_id |-> model_id,
                                       raised |-> TRUE, msg |-> msg])
            /\ result' = ModelLoadError(msg)
            /\ pc' = "output"
    /\ UNCHANGED <<argv, env, args, frame, image, stdout, exit_code>>

\* image = Image.open(image_path), converted to RGB when in another mode,
\* or the image_load_failed object
OpenImage ==
    /\ pc = "open"
    /\ \/ \E msg \in Messages :
            /\ calls' = Append(calls, [fn |-> "open", path |-> frame.image_path,
                                       raised |-> TRUE, msg |-> msg])
            /\ result' = ImageLoadError(msg, frame.image_path)
            /\ pc' = "output"
            /\ UNCHANGED image
       \/ \E mode \in Modes :
            LET opened == [fn |-> "open", path |-> frame.image_path,
                           raised |-> FALSE, msg |-> <<>>] IN
            IF mode = "RGB"
            THEN /\ calls' = Append(calls, opened)
                 /\ image' = [path |-> frame.image_path, mode |-> mode]
                 /\ pc' = "generate"
                 /\ UNCHANGED result
            ELSE \/ /\ calls' = calls \o <<opened, [fn |-> "convert", mode |-> "RGB",
                                                    raised |-> FALSE, msg |-> <<>>]>>
                    /\ image' = [path |-> frame.image_path, mode |-> "RGB"]
                    /\ pc' = "generate"
                    /\ UNCHANGED result
                 \/ \E msg \in Messages :
                      /\ calls' = calls \o <<opened, [fn |-> "convert", mode |-> "RGB",
                                                      raised |-> TRUE, msg |-> msg]>>
                      /\ result' = ImageLoadError(msg, frame.image_path)
                      /\ pc' = "output"
                      /\ UNCHANGED image
    /\ UNCHANGED <<argv, env, args, frame, stdout, exit_code>>

\* response = generate(model, tokenizer, prompt=..., images=[image],
\* max_tokens=..., verbose=False), or the generation_failed object
Generate ==
    /\ pc = "generate"
    /\ LET call == [fn |-> "generate", prompt |-> frame.prompt, images |-> <<image>>,
                    max_tokens |-> frame.max_tokens, verbose |-> FALSE] IN
       \/ \E text \in Texts :
            /\ calls' = Append(calls, call @@ [raised |-> FALSE, msg |-> <<>>,
                                               response |-> text])
            /\ result' = text
       \/ \E msg \in Messages :
            /\ calls' = Append(calls, call @@ [raised |-> TRUE, msg |-> msg,
                                               response |-> <<>>])
            /\ result' = GenerationError(msg)
    /\ pc' = "output"
    /\ UNCHANGED <<argv, env, args, frame, image, stdout, exit_code>>

\* a slip: a failed stage makes the process end with status 1
OutputResult_ErrorExit ==
    /\ pc = "output"
    /\ stdout' = IF args.json
                 THEN Println(stdout, JsonDumps(<< <<KeyResult, EncodeStr(result)>> >>))
                 ELSE Println(stdout, result)
    /\ exit_code' = IF calls[Len(calls)].raised THEN 1 ELSE 0
    /\ pc' = "exited"
    /\ UNCHANGED <<argv, env, args, frame, image, calls, result>>

\* print the result, wrapped as {"result": ...} under --json; main returns
OutputResult ==
    /\ pc = "output"
    /\ stdout' = IF args.json
                 THEN Println(stdout, JsonDumps(<< <<KeyResult, EncodeStr(result)>> >>))
                 ELSE Println(stdout, result)
    /\ exit_code' = 0
    /\ pc' = "exited"
    /\ UNCHANGED <<argv, env, args, frame, image, calls, result>>

Next ==
    \/ ParseArgs
    \/ CheckDepsOnly
    \/ VerifyImage
    \/ CheckDepsBeforeRun
    \/ AnalyzeEnter
    \/ LoadModel
    \/ OpenImage
    \/ Generate
    \/ OutputResult

Spec == Init /\ [][Next]_vars

\* ------------------------------------------------- reading the output back
\* A reader of the JSON text the script prints: objects whose values are
\* strings or lists of strings.  It is written from the JSON grammar, not from
\* the encoder above.
ParseFail ==
    [ok |-> FALSE, kind |-> "none", str |-> <<>>, list |-> <<>>, next |-> 0]

\* the number of backslashes that precede s[j] in a row, from s[lo] on
BackslashRun(s, lo, j) ==
    CHOOSE k \in 0..(j - lo) :
        /\ \A n \in 1..k : s[j - n] = BSLASH
        /\ k = j - lo \/ s[j - 1 - k] # BSLASH

\* s[j] is the second character of an escape sequence
Escaped(s, lo, j) ==
    BackslashRun(s, lo, j) % 2 = 1

\* what stands for a character sequence that JSON does not allow in a string
Invalid == "invalid"

\* the body of a string literal, its escape sequences replaced
RECURSIVE Unescape(_)
Unescape(body) ==
    IF Len(body) = 0 THEN <<>>
    ELSE IF Len(body) = 1
    THEN IF body[1] \in {BSLASH, QUOTE, LF} THEN <<Invalid>> ELSE body
    ELSE IF Len(body) = 2 /\ body[1] = BSLASH
    THEN IF body[2] \in {QUOTE, BSLASH} THEN <<body[2]>>
         ELSE IF body[2] = "n" THEN <<LF>>
         ELSE <<Invalid>>
    ELSE LET half == Len(body) \div 2
             cut == IF ~Escaped(body, 1, half + 1) THEN half
                    ELSE IF half > 1 THEN half - 1
                    ELSE 2
         IN  Unescape(SubSeq(body, 1, cut)) \o Unescape(SubSeq(body, cut + 1, Len(body)))

\* s[j] is the quote that closes the string literal whose body starts at s[i]
IsClosing(s, i, j) ==
    /\ s[j] = QUOTE
    /\ ~Escaped(s, i, j)
    /\ \A k \in i..(j - 1) : s[k] # QUOTE \/ Escaped(s, i, k)

\* the string literal whose opening quote is at s[i - 1]
ScanString(s, i) ==
    IF ~\E j \in i..Len(s) : IsClosing(s, i, j) THEN ParseFail
    ELSE LET e == CHOOSE j \in i..Len(s) : IsClosing(s, i, j)
             u == Unescape(SubSeq(s, i, e - 1))
         IN  IF \A k \in 1..Len(u) : u[k] # Invalid
             THEN [ok |-> TRUE, kind |-> "str", str |-> u, list |-> <<>>, next |-> e + 1]
             ELSE ParseFail

\* the rest of a list of strings, s[i] being its next element or its "]"
RECURSIVE ScanList(_, _, _)
ScanList(s, i, acc) ==
    IF i > Len(s) THEN ParseFail
    ELSE IF s[i] = "]" /\ acc = <<>>
    THEN [ok |-> TRUE, kind |-> "list", str |-> <<>>, list |-> acc, next |-> i + 1]
    ELSE IF s[i] # QUOTE THEN ParseFail
    ELSE LET e == ScanString(s, i + 1) IN
         IF ~e.ok \/ e.next > Len(s) THEN ParseFail
         ELSE IF s[e.next] = "]"
         THEN [ok |-> TRUE, kind |-> "list", str |-> <<>>,
               list |-> Append(acc, e.str), next |-> e.next + 1]
         ELSE IF s[e.next] = "," /\ e.next + 1 <= Len(s) /\ s[e.next + 1] = " "
         THEN ScanList(s, e.next + 2, Append(acc, e.str))
         ELSE ParseFail

ScanValue(s, i) ==
    IF i > Len(s) THEN ParseFail
    ELSE IF s[i] = QUOTE THEN ScanString(s, i + 1)
    ELSE IF s[i] = "[" THEN ScanList(s, i + 1, <<>>)
    ELSE ParseFail

NoObject ==
    [ok |-> FALSE, keys |-> <<>>, vals |-> <<>>]

\* the members of an object, s[i] being the opening quote of the next key
RECURSIVE ScanMembers(_, _, _, _)
ScanMembers(s, i, keys, vals) ==
    IF i > Len(s) \/ s[i] # QUOTE THEN NoObject
    ELSE LET k == ScanString(s, i + 1) IN
         IF ~k.ok \/ k.next + 1 > Len(s) \/ s[k.next] # ":" \/ s[k.next + 1] # " "
         THEN NoObject
         ELSE LET v == ScanValue(s, k.next + 2) IN
              IF ~v.ok \/ v.next > Len(s) THEN NoObject
              ELSE IF s[v.next] = "}"
              THEN IF v.next = Len(s)
                   THEN [ok |-> TRUE, keys |-> Append(keys, k.str), vals |-> Append(vals, v)]
                   ELSE NoObject
              ELSE IF s[v.next] = "," /\ v.next + 1 <= Len(s) /\ s[v.next + 1] = " "
              THEN ScanMembers(s, v.next + 2, Append(keys, k.str), Append(vals, v))
              ELSE NoObject

\* json.loads(s) for an object
JsonLoads(s) ==
    IF Len(s) >= 2 /\ s[1] = "{" THEN ScanMembers(s, 2, <<>>, <<>>) ELSE NoObject

\* the text of a printed line, without the newline print appends
LineText(line) ==
    SubSeq(line, 1, Len(line) - 1)

\* the object printed as the k-th line of standard output
Printed(k) ==
    IF k <= Len(stdout) /\ Len(stdout[k]) >= 1 /\ stdout[k][Len(stdout[k])] = LF
    THEN JsonLoads(LineText(stdout[k]))
    ELSE NoObject

\* o has the string v under key number k
HasStr(o, k, key, v) ==
    /\ o.ok
    /\ k <= Len(o.keys)
    /\ o.keys[k] = key
    /\ o.vals[k].kind = "str"
    /\ o.vals[k].str = v

HasList(o, k, key, l) ==
    /\ o.ok
    /\ k <= Len(o.keys)
    /\ o.keys[k] = key
    /\ o.vals[k].kind = "list"
    /\ o.vals[k].list = l

\* needle occurs in hay
Contains(hay, needle) ==
    \E i \in 1..(Len(hay) - Len(needle) + 1) :
        SubSeq(hay, i, i + Len(needle) - 1) = needle

Exited == pc = "exited"

\* the calls made so far that have the given name
CallsOf(fn) ==
    SelectSeq(calls, LAMBDA c : c.fn = fn)

\* analyze_image, or one of its three stages, was called
AnalysisCalled ==
    \E k \in 1..Len(calls) : calls[k].fn \in {"analyze_image", "load", "open", "convert", "generate"}

StatusOkLine ==
    <<"{", QUOTE, "s", "t", "a", "t", "u", "s", QUOTE, ":", " ", QUOTE, "o", "k", QUOTE, "}",
      LF>>

\* C1: without --check-deps and with an image path that does not exist, the
\* process ends with status 1 and its only output is the object
\* {"error": "file_not_found", "path": p}, p being the path of the command
\* line, whatever the dependencies, --json, --prompt and --max-tokens are.
C1_FileNotFound ==
    (Exited /\ ~argv.check_deps /\ ~env.exists)
        => /\ exit_code = 1
           /\ Len(stdout) = 1
           /\ Len(Printed(1).keys) = 2
           /\ HasStr(Printed(1), 1, KeyError, FileNotFound)
           /\ HasStr(Printed(1), 2, KeyPath, argv.image)

C1_Witness ==
    /\ Exited /\ ~argv.check_deps /\ ~env.exists
    /\ argv.json /\ ~env.mlx_lm /\ argv.prompt # <<>>
    /\ argv.image = <<QUOTE>>

\* C2: with --check-deps and both dependencies resolvable, the process ends
\* with status 0, prints exactly {"status": "ok"} and nothing else, and
\* analyze_image (model load, image open, generation) is never called.
C2_CheckDepsOk ==
    (argv.check_deps /\ env.mlx_lm /\ env.PIL)
        => /\ ~AnalysisCalled
           /\ pc \in {"parse_args", "check_deps_only", "exited"}
           /\ Exited => (exit_code = 0 /\ stdout = <<StatusOkLine>>)
           /\ ~Exited => stdout = <<>>

C2_Witness ==
    /\ Exited /\ argv.check_deps /\ env.mlx_lm /\ env.PIL
    /\ ~env.exists /\ argv.json

\* C3: with --check-deps and a dependency unresolvable, the process ends with
\* status 1 and prints one object: error = "missing_dependencies", packages =
\* exactly the unresolvable package names, install_command a non-empty string
\* containing every listed name; {"status": "ok"} is not printed.
C3_CheckDepsMissing ==
    (Exited /\ argv.check_deps /\ ~(env.mlx_lm /\ env.PIL))
        => LET o == Printed(1) IN
           /\ exit_code = 1
           /\ Len(stdout) = 1
           /\ stdout[1] # StatusOkLine
           /\ Len(o.keys) = 3
           /\ HasStr(o, 1, KeyError, MissingDependencies)
           /\ o.keys[2] = KeyPackages
           /\ o.vals[2].kind = "list"
           /\ {o.vals[2].list[k] : k \in 1..Len(o.vals[2].list)}
                = {p \in {MlxLmPackage} : ~env.mlx_lm} \cup {p \in {PillowPackage} : ~env.PIL}
           /\ Len(o.vals[2].list) = Cardinality({d \in {"mlx_lm", "PIL"} : ~env[d]})
           /\ o.keys[3] = KeyInstallCommand
           /\ o.vals[3].kind = "str"
           /\ o.vals[3].str # <<>>
           /\ \A k \in 1..Len(o.vals[2].list) : Contains(o.vals[3].str, o.vals[2].list[k])

C3_Witness ==
    /\ Exited /\ argv.check_deps /\ ~env.mlx_lm /\ ~env.PIL
    /\ Len(stdout) = 1

\* what the invocation prints without --json: the analyzer's result once
\* analyze_image has run, the bare object of an early exit otherwise
PlainOutput ==
    IF CallsOf("analyze_image") # <<>> THEN result
    ELSE IF stdout # <<>> THEN LineText(stdout[1])
    ELSE <<>>

\* C4 (as claimed): under --json every output, early exits included, is a JSON
\* object with the top-level key "result" holding the non-JSON output.
C4_Original ==
    (Exited /\ argv.json)
        => /\ Len(stdout) = 1
           /\ HasStr(Printed(1), 1, KeyResult, PlainOutput)

\* C4 (amended): once analyze_image has run, the one line printed is, under
\* --json, a JSON object whose only key "result" holds exactly the text that
\* is printed without --json, which is the analyzer's result; the early exits
\* print their bare object, without a "result" key, with and without --json.
C4_JsonEnvelope ==
    /\ (Exited /\ CallsOf("analyze_image") # <<>>)
          => /\ Len(stdout) = 1
             /\ IF argv.json
                THEN /\ Len(Printed(1).keys) = 1
                     /\ HasStr(Printed(1), 1, KeyResult, result)
                ELSE stdout[1] = result \o <<LF>>
    /\ (Exited /\ CallsOf("analyze_image") = <<>>)
          => /\ Printed(1).ok
             /\ \A k \in 1..Len(Printed(1).keys) : Printed(1).keys[k] # KeyResult

C4_Witness ==
    /\ Exited /\ argv.json
    /\ CallsOf("generate") # <<>>
    /\ result = <<BSLASH, "n">>

C4_WitnessError ==
    /\ Exited /\ argv.json
    /\ CallsOf("load") # <<>>
    /\ calls[Len(calls)].raised
    /\ calls[Len(calls)].msg = <<QUOTE>>

\* C5: the exit status is 1 exactly when a dependency is missing or, without
\* --check-deps, the image file does not exist, and 0 otherwise; a run that
\* reaches analyze_image ends with 0, also when the analyzer returns an error
\* object.
C5_ExitStatus ==
    Exited
        => /\ exit_code \in {0, 1}
           /\ exit_code = 1 <=> (~(env.mlx_lm /\ env.PIL) \/ (~argv.check_deps /\ ~env.exists))
           /\ AnalysisCalled => exit_code = 0

C5_Witness ==
    /\ Exited
    /\ CallsOf("generate") # <<>>
    /\ calls[Len(calls)].raised
    /\ exit_code = 0

\* C6: every run past argument parsing prints exactly one value before it
\* ends, and nothing before that: the missing_dependencies object, the
\* status-ok object, the file_not_found object, the analyzer's result or the
\* {"result": ...} envelope.
C6_OneOutput ==
    /\ ~Exited => stdout = <<>>
    /\ Exited
         => /\ Len(stdout) = 1
            /\ \/ HasStr(Printed(1), 1, KeyError, MissingDependencies)
               \/ stdout[1] = StatusOkLine
               \/ HasStr(Printed(1), 1, KeyError, FileNotFound)
               \/ AnalysisCalled /\ ~argv.json /\ stdout[1] = result \o <<LF>>
               \/ AnalysisCalled /\ argv.json /\ HasStr(Printed(1), 1, KeyResult, result)

C6_Witness ==
    /\ Exited
    /\ ~argv.check_deps /\ env.exists /\ ~env.PIL
    /\ Len(stdout) = 1

\* the names of the calls made so far, in order
CallNames ==
    [k \in 1..Len(calls) |-> calls[k].fn]

\* C7: analyze_image is entered only after the image path was found to exist
\* and then both dependencies were found resolvable, in that order; a failure
\* of either check ends the process with status 1 and no model load, image
\* open or generation happens in that run.
C7_ChecksBeforeAnalysis ==
    /\ AnalysisCalled
         => /\ Len(calls) >= 3
            /\ SubSeq(CallNames, 1, 3) = <<"exists", "check_dependencies", "analyze_image">>
            /\ env.exists /\ env.mlx_lm /\ env.PIL
    /\ (Exited /\ ~argv.check_deps /\ ~(env.exists /\ env.mlx_lm /\ env.PIL))
         => /\ exit_code = 1
            /\ ~AnalysisCalled

C7_Witness ==
    /\ CallsOf("generate") # <<>>
    /\ SubSeq(CallNames, 1, 3) = <<"exists", "check_dependencies", "analyze_image">>

C7_WitnessFailure ==
    /\ Exited /\ ~argv.check_deps /\ env.exists /\ ~env.mlx_lm
    /\ CallNames = <<"exists", "check_dependencies">>

\* C8: the generation call receives the literal --prompt string when one was
\* given, the empty string included, and the built-in default prompt when
\* none was given.
C8_PromptForwarded ==
    \A k \in 1..Len(calls) :
        calls[k].fn = "generate"
            => /\ argv.prompt = <<>> => calls[k].prompt = DefaultPrompt
               /\ argv.prompt # <<>> => /\ calls[k].prompt = argv.prompt[1]
                                        /\ calls[k].prompt # DefaultPrompt

C8_Witness ==
    /\ CallsOf("generate") # <<>>
    /\ argv.prompt = << <<>> >>

C8_WitnessDefault ==
    /\ CallsOf("generate") # <<>>
    /\ argv.prompt = <<>>

\* C9: the generation call receives max_tokens = 2048 when --max-tokens is
\* omitted and exactly the integer given otherwise, unclamped.
C9_MaxTokensForwarded ==
    \A k \in 1..Len(calls) :
        calls[k].fn = "generate"
            => calls[k].max_tokens = IF argv.max_tokens = <<>> THEN 2048
                                     ELSE argv.max_tokens[1]

C9_Witness ==
    /\ CallsOf("generate") # <<>>
    /\ argv.max_tokens = <<-1>>

C9_WitnessDefault ==
    /\ CallsOf("generate") # <<>>
    /\ argv.max_tokens = <<>>

\* the calls of the three stages, in order
StageCalls ==
    SelectSeq(calls, LAMBDA c : c.fn \in {"load", "open", "convert", "generate"})

StageNames ==
    [k \in 1..Len(StageCalls) |-> StageCalls[k].fn]

IsPrefix(s, t) ==
    Len(s) <= Len(t) /\ s = SubSeq(t, 1, Len(s))

\* C10: the stages run in the order model load, image open/convert,
\* generation; a stage that fails is the last one called and fixes the
\* returned error object (model_load_failed with message and model id,
\* image_load_failed with message and path, generation_failed with message);
\* the generated text is returned verbatim when all stages succeed.
C10_Stages ==
    /\ \/ IsPrefix(StageNames, <<"load", "open", "generate">>)
       \/ IsPrefix(StageNames, <<"load", "open", "convert", "generate">>)
    /\ \A k \in 1..Len(StageCalls) : StageCalls[k].raised => k = Len(StageCalls)
    /\ (pc \in {"load", "open", "generate"}) => \A k \in 1..Len(StageCalls) : ~StageCalls[k].raised
    /\ (pc \in {"output", "exited"} /\ AnalysisCalled)
         => LET last == StageCalls[Len(StageCalls)]
                o == JsonLoads(result) IN
            /\ StageCalls # <<>>
            /\ (last.fn = "load" /\ last.raised)
                 <=> (/\ Len(o.keys) = 3
                      /\ HasStr(o, 1, KeyError, ModelLoadFailed)
                      /\ HasStr(o, 2, KeyMessage, last.msg)
                      /\ HasStr(o, 3, KeyModel, model_id))
            /\ (last.fn \in {"open", "convert"} /\ last.raised)
                 <=> (/\ Len(o.keys) = 3
                      /\ HasStr(o, 1, KeyError, ImageLoadFailed)
                      /\ HasStr(o, 2, KeyMessage, last.msg)
                      /\ HasStr(o, 3, KeyPath, argv.image))
            /\ (last.fn = "generate" /\ last.raised)
                 <=> (/\ Len(o.keys) = 2
                      /\ HasStr(o, 1, KeyError, GenerationFailed)
                      /\ HasStr(o, 2, KeyMessage, last.msg))
            /\ ~last.raised => (last.fn = "generate" /\ result = last.response)

C10_Witness ==
    /\ pc = "output"
    /\ StageNames = <<"load", "open", "convert">>
    /\ StageCalls[3].raised

C10_WitnessSuccess ==
    /\ pc = "output"
    /\ StageNames = <<"load", "open", "convert", "generate">>
    /\ ~StageCalls[4].raised
    /\ result = <<LF, "n">>

====
